---------------------------- MODULE Spec2Model ----------------------------
(***************************************************************************)
(* The validation proxy of the application connectivity validator          *)
(* (package validationproxy): the per-request pipeline of                  *)
(* ProxyAppConnectorRequests, the identity cache, the subject parser, the   *)
(* subject validator, the path router and the three reverse proxies.       *)
(*                                                                         *)
(* Strings are sequences of symbols.  A symbol stands for a piece of text   *)
(* that holds none of the separators the code looks for; the separators     *)
(* (the comma, the equals sign, the double quote and the literal Subject=)  *)
(* are symbols of their own, so that strings.Split, strings.HasPrefix and   *)
(* the regular expression of extractSubjects work on them as on text.       *)
(***************************************************************************)
EXTENDS Integers, Sequences, FiniteSets, TLC

(***************************************************************************)
(* Strings                                                                 *)
(***************************************************************************)
EmptyString == <<>>

Comma == ","

Equals == "="

Quote == "\""

SubjectKey == "Subject="

\* strings.HasPrefix(s, prefix)
HasPrefix(s, prefix) ==
    /\ Len(prefix) <= Len(s)
    /\ SubSeq(s, 1, Len(prefix)) = prefix

\* The index of the first occurrence of sep in s at or after from, 0 if none.
RECURSIVE IndexFrom(_, _, _)
IndexFrom(s, sep, from) ==
    IF from > Len(s) THEN 0
    ELSE IF s[from] = sep THEN from
    ELSE IndexFrom(s, sep, from + 1)

\* strings.Split(s, sep) for a one-symbol separator: the pieces of s between
\* the occurrences of sep; a string without sep gives the one piece s.
RECURSIVE Split(_, _)
Split(s, sep) ==
    LET i == IndexFrom(s, sep, 1)
    IN  IF i = 0 THEN <<s>>
        ELSE <<SubSeq(s, 1, i - 1)>> \o Split(SubSeq(s, i + 1, Len(s)), sep)

(***************************************************************************)
(* Subject extraction and parsing                                          *)
(***************************************************************************)
\* get(array, index), with Go's 0-based index.
get(array, index) ==
    IF Len(array) > index THEN array[index + 1] ELSE EmptyString

\* regexp `Subject="(.*?)"`, FindAllStringSubmatch(certInfoData, -1): the
\* leftmost non-overlapping matches; each match is <<whole text, group 1>>.
RECURSIVE FindAllSubjectSubmatch(_, _)
FindAllSubjectSubmatch(data, from) ==
    IF from + 2 > Len(data) THEN <<>>
    ELSE IF data[from] = SubjectKey /\ data[from + 1] = Quote
              /\ IndexFrom(data, Quote, from + 2) # 0
         THEN LET close == IndexFrom(data, Quote, from + 2)
              IN  <<<<SubSeq(data, from, close), SubSeq(data, from + 2, close - 1)>>>>
                      \o FindAllSubjectSubmatch(data, close + 1)
         ELSE FindAllSubjectSubmatch(data, from + 1)

RECURSIVE AppendNonEmptySubjects(_)
AppendNonEmptySubjects(subjectMatches) ==
    IF subjectMatches = <<>> THEN <<>>
    ELSE LET subject == get(Head(subjectMatches), 1)
         IN  (IF subject # EmptyString THEN <<subject>> ELSE <<>>)
                 \o AppendNonEmptySubjects(Tail(subjectMatches))

extractSubjects(certInfoData) ==
    AppendNonEmptySubjects(FindAllSubjectSubmatch(certInfoData, 1))

\* A Go map[string]string: a function on the keys written so far.
EmptyMap == [k \in {} |-> EmptyString]

MapSet(m, k, v) == [x \in DOMAIN m \cup {k} |-> IF x = k THEN v ELSE m[x]]

\* m[k] of a Go map: the zero value for a key that is not there.
MapGet(m, k) == IF k \in DOMAIN m THEN m[k] ELSE EmptyString

\* The loop of extractSubject over the segments.  parts[1] of a segment
\* without "=" is an index out of range: the goroutine panics.
RECURSIVE ExtractSegments(_, _)
ExtractSegments(segments, result) ==
    IF segments = <<>> THEN [panic |-> FALSE, result |-> result]
    ELSE LET parts == Split(Head(segments), Equals)
         IN  IF Len(parts) < 2 THEN [panic |-> TRUE, result |-> result]
             ELSE ExtractSegments(Tail(segments), MapSet(result, parts[1], parts[2]))

extractSubject(subject) == ExtractSegments(Split(subject, Comma), EmptyMap)

\* pkix.Name as parseSubject fills it; panic when extractSubject panicked.
parseSubject(rawSubject) ==
    LET subjectInfo == extractSubject(rawSubject)
    IN  [panic              |-> subjectInfo.panic,
         CommonName         |-> MapGet(subjectInfo.result, <<"CN">>),
         Country            |-> <<MapGet(subjectInfo.result, <<"C">>)>>,
         Organization       |-> <<MapGet(subjectInfo.result, <<"O">>)>>,
         OrganizationalUnit |-> <<MapGet(subjectInfo.result, <<"OU">>)>>,
         Locality           |-> <<MapGet(subjectInfo.result, <<"L">>)>>,
         Province           |-> <<MapGet(subjectInfo.result, <<"ST">>)>>]

(***************************************************************************)
(* Subject validation                                                      *)
(***************************************************************************)
\* areStringsFilled with "any" in place of "all".
areStringsFilledAny(group, tenant) == group # EmptyString \/ tenant # EmptyString

areStringsFilled(group, tenant) == group # EmptyString /\ tenant # EmptyString

validateCommonNameWithAppName(appName, subject) == appName = subject.CommonName

validateCommonNameWithClientIDs(applicationClientIDs, subject) ==
    \E i \in 1..Len(applicationClientIDs) : subject.CommonName = applicationClientIDs[i]

validateSubjectField(subjectField, expectedValue) ==
    Len(subjectField) = 1 /\ subjectField[1] = expectedValue

\* The validator newSubjectValidator returns, applied to subject.
newSubjectValidator(applicationClientIDs, appName, group, tenant, subject) ==
    CASE Len(applicationClientIDs) = 0 /\ ~areStringsFilled(group, tenant) ->
            validateCommonNameWithAppName(appName, subject)
      [] Len(applicationClientIDs) = 0 /\ areStringsFilled(group, tenant) ->
            /\ validateCommonNameWithAppName(appName, subject)
            /\ validateSubjectField(subject.Organization, tenant)
            /\ validateSubjectField(subject.OrganizationalUnit, group)
      [] Len(applicationClientIDs) # 0 /\ ~areStringsFilled(group, tenant) ->
            validateCommonNameWithClientIDs(applicationClientIDs, subject)
      [] Len(applicationClientIDs) # 0 /\ areStringsFilled(group, tenant) ->
            /\ validateCommonNameWithClientIDs(applicationClientIDs, subject)
            /\ validateSubjectField(subject.Organization, tenant)
            /\ validateSubjectField(subject.OrganizationalUnit, group)
      [] OTHER -> FALSE

\* hasValidSubject: "true", "false", or "panic" when parseSubject panics on a
\* subject the loop reaches (the loop returns at the first valid subject).
RECURSIVE hasValidSubject(_, _, _, _, _)
hasValidSubject(subjects, applicationClientIDs, appName, group, tenant) ==
    IF subjects = <<>> THEN "false"
    ELSE LET parsedSubject == parseSubject(Head(subjects))
         IN  IF parsedSubject.panic THEN "panic"
             ELSE IF newSubjectValidator(applicationClientIDs, appName, group, tenant, parsedSubject)
                  THEN "true"
                  ELSE hasValidSubject(Tail(subjects), applicationClientIDs, appName, group, tenant)

(***************************************************************************)
(* The proxy handler                                                       *)
(***************************************************************************)
CertificateInfoHeader == "X-Forwarded-Client-Cert"

BEBEnabledPublishEndpoint == <<"/publish">>

HTTPScheme == <<"http">>

\* withRewriteBaseURL that leaves the path of the request as it is.
withRewriteBaseURLKeepingPath(path) == [option |-> "withHTTPScheme", path |-> path]

\* A requestOption, applied to the outbound request.
withRewriteBaseURL(path) == [option |-> "withRewriteBaseURL", path |-> path]

withEmptyRequestHost == [option |-> "withEmptyRequestHost", path |-> EmptyString]

withEmptyXFwdClientCert == [option |-> "withEmptyXFwdClientCert", path |-> EmptyString]

withHTTPScheme == [option |-> "withHTTPScheme", path |-> EmptyString]

\* http.Header.Del(key)
HeaderDel(header, key) == [k \in DOMAIN header \ {key} |-> header[k]]

\* http.Header.Get(key): "" when the header is not there.
HeaderGet(header, key) == IF key \in DOMAIN header THEN header[key] ELSE EmptyString

ApplyOption(opt, request) ==
    CASE opt.option = "withRewriteBaseURL" ->
            [request EXCEPT !.URL.Path = opt.path]
      [] opt.option = "withEmptyRequestHost" ->
            [request EXCEPT !.Host = EmptyString]
      [] opt.option = "withHTTPScheme" ->
            [request EXCEPT !.URL.Scheme = HTTPScheme]
      [] opt.option = "withEmptyXFwdClientCert" ->
            [request EXCEPT !.Header = HeaderDel(request.Header, CertificateInfoHeader)]

RECURSIVE ApplyOptions(_, _)
ApplyOptions(reqOpts, request) ==
    IF reqOpts = <<>> THEN request
    ELSE ApplyOptions(Tail(reqOpts), ApplyOption(Head(reqOpts), request))

\* createReverseProxy that drops the request options.
createReverseProxyWithoutOptions(destinationHost, reqOpts) ==
    [destinationHost |-> destinationHost, reqOpts |-> <<>>]

\* The ReverseProxy createReverseProxy builds: its Director's host and options.
createReverseProxy(destinationHost, reqOpts) ==
    [destinationHost |-> destinationHost, reqOpts |-> reqOpts]

\* The Director of a reverse proxy, applied to the request it forwards.
Director(proxy, request) ==
    ApplyOptions(proxy.reqOpts, [request EXCEPT !.URL.Host = proxy.destinationHost])

NoProxy == createReverseProxy(EmptyString, <<>>)

\* NewProxyHandler enabling the mesh for every destination path that is set.
NewProxyHandlerMeshWhenPathSet(group, tenant, eventServicePathPrefixV1, eventServicePathPrefixV2, eventServiceHost, eventMeshPathPrefix, eventMeshHost, eventMeshDestinationPath, appRegistryPathPrefix, appRegistryHost) ==
    [group                    |-> group,
     tenant                   |-> tenant,
     eventServicePathPrefixV1 |-> eventServicePathPrefixV1,
     eventServicePathPrefixV2 |-> eventServicePathPrefixV2,
     eventServiceHost         |-> eventServiceHost,
     eventMeshPathPrefix      |-> eventMeshPathPrefix,
     eventMeshHost            |-> eventMeshHost,
     isBEBEnabled             |-> (eventMeshDestinationPath # EmptyString),
     appRegistryPathPrefix    |-> appRegistryPathPrefix,
     appRegistryHost          |-> appRegistryHost,
     eventsProxy      |-> createReverseProxy(eventServiceHost,
                              <<withEmptyRequestHost, withEmptyXFwdClientCert, withHTTPScheme>>),
     eventMeshProxy   |-> createReverseProxy(eventMeshHost,
                              <<withRewriteBaseURL(eventMeshDestinationPath), withEmptyRequestHost,
                                withEmptyXFwdClientCert, withHTTPScheme>>),
     appRegistryProxy |-> createReverseProxy(appRegistryHost,
                              <<withEmptyRequestHost, withHTTPScheme>>)]

NewProxyHandler(group, tenant, eventServicePathPrefixV1, eventServicePathPrefixV2, eventServiceHost, eventMeshPathPrefix, eventMeshHost, eventMeshDestinationPath, appRegistryPathPrefix, appRegistryHost) ==
    [group                    |-> group,
     tenant                   |-> tenant,
     eventServicePathPrefixV1 |-> eventServicePathPrefixV1,
     eventServicePathPrefixV2 |-> eventServicePathPrefixV2,
     eventServiceHost         |-> eventServiceHost,
     eventMeshPathPrefix      |-> eventMeshPathPrefix,
     eventMeshHost            |-> eventMeshHost,
     isBEBEnabled             |-> (eventMeshDestinationPath = BEBEnabledPublishEndpoint),
     appRegistryPathPrefix    |-> appRegistryPathPrefix,
     appRegistryHost          |-> appRegistryHost,
     eventsProxy      |-> createReverseProxy(eventServiceHost,
                              <<withEmptyRequestHost, withEmptyXFwdClientCert, withHTTPScheme>>),
     eventMeshProxy   |-> createReverseProxy(eventMeshHost,
                              <<withRewriteBaseURL(eventMeshDestinationPath), withEmptyRequestHost,
                                withEmptyXFwdClientCert, withHTTPScheme>>),
     appRegistryProxy |-> createReverseProxy(appRegistryHost,
                              <<withEmptyRequestHost, withHTTPScheme>>)]

\* mapRequestToProxy answering BadRequest for a path of no destination.
mapRequestToProxyBadRequest(handler, path) ==
    IF HasPrefix(path, handler.eventServicePathPrefixV1)
    THEN [proxy |-> "eventsProxy", err |-> "nil"]
    ELSE IF HasPrefix(path, handler.eventServicePathPrefixV2)
    THEN (IF handler.isBEBEnabled
          THEN [proxy |-> "eventMeshProxy", err |-> "nil"]
          ELSE [proxy |-> "eventsProxy", err |-> "nil"])
    ELSE IF HasPrefix(path, handler.eventMeshPathPrefix)
    THEN [proxy |-> "eventMeshProxy", err |-> "nil"]
    ELSE IF HasPrefix(path, handler.appRegistryPathPrefix)
    THEN [proxy |-> "appRegistryProxy", err |-> "nil"]
    ELSE [proxy |-> "nil", err |-> "BadRequest"]

\* mapRequestToProxy with the event-mesh case before the v2 case.
mapRequestToProxyMeshFirst(handler, path) ==
    IF HasPrefix(path, handler.eventServicePathPrefixV1)
    THEN [proxy |-> "eventsProxy", err |-> "nil"]
    ELSE IF HasPrefix(path, handler.eventMeshPathPrefix)
    THEN [proxy |-> "eventMeshProxy", err |-> "nil"]
    ELSE IF HasPrefix(path, handler.eventServicePathPrefixV2)
    THEN (IF handler.isBEBEnabled
          THEN [proxy |-> "eventMeshProxy", err |-> "nil"]
          ELSE [proxy |-> "eventsProxy", err |-> "nil"])
    ELSE IF HasPrefix(path, handler.appRegistryPathPrefix)
    THEN [proxy |-> "appRegistryProxy", err |-> "nil"]
    ELSE [proxy |-> "nil", err |-> "NotFound"]

\* mapRequestToProxy: the proxy's name ("eventsProxy", ...) and the error kind.
mapRequestToProxy(handler, path) ==
    IF HasPrefix(path, handler.eventServicePathPrefixV1)
    THEN [proxy |-> "eventsProxy", err |-> "nil"]
    ELSE IF HasPrefix(path, handler.eventServicePathPrefixV2)
    THEN (IF handler.isBEBEnabled
          THEN [proxy |-> "eventMeshProxy", err |-> "nil"]
          ELSE [proxy |-> "eventsProxy", err |-> "nil"])
    ELSE IF HasPrefix(path, handler.eventMeshPathPrefix)
    THEN [proxy |-> "eventMeshProxy", err |-> "nil"]
    ELSE IF HasPrefix(path, handler.appRegistryPathPrefix)
    THEN [proxy |-> "appRegistryProxy", err |-> "nil"]
    ELSE [proxy |-> "nil", err |-> "NotFound"]

\* The *httputil.ReverseProxy a proxy name of mapRequestToProxy stands for.
ProxyOf(handler, name) ==
    CASE name = "eventsProxy" -> handler.eventsProxy
      [] name = "eventMeshProxy" -> handler.eventMeshProxy
      [] name = "appRegistryProxy" -> handler.appRegistryProxy
      [] OTHER -> NoProxy

(***************************************************************************)
(* The identity cache (the Cache interface, a go-cache with a default       *)
(* expiration) and the application getter                                  *)
(***************************************************************************)
\* The cache's default expiration, in ticks of the clock.
TTL == 2

\* An item whose expiration has passed: Get no longer finds it.
Expired == 0

\* Cache.Get(k): found, and the value, of an item that has not expired.
CacheGet(c, k) ==
    IF k \in DOMAIN c /\ c[k].remaining > Expired
    THEN [found |-> TRUE, x |-> c[k].x]
    ELSE [found |-> FALSE, x |-> <<>>]

\* Cache.Set(k, x, cache.DefaultExpiration): the item replaces what k held.
CacheSet(c, k, x) ==
    [key \in DOMAIN c \cup {k} |-> IF key = k THEN [x |-> x, remaining |-> TTL] ELSE c[key]]

\* One tick of the clock on every item of the cache.
CacheTick(c) ==
    [key \in DOMAIN c |->
        [c[key] EXCEPT !.remaining = IF c[key].remaining > Expired THEN c[key].remaining - 1
                                     ELSE Expired]]

EmptyCache == [key \in {} |-> [x |-> <<>>, remaining |-> Expired]]

\* An Application without Spec.CompassMetadata, and one with client ids.
NoCompassMetadata == [CompassMetadata |-> "nil", ClientIds |-> <<>>]

WithClientIds(ids) == [CompassMetadata |-> "set", ClientIds |-> ids]

\* The outcomes of applicationGetter.Get(ctx, name, options): the Application of
\* the name, or an error and no Application.
applicationGetterGet(directory, name) ==
    { [err |-> "nil", application |-> directory[name]],
      [err |-> "error", application |-> NoCompassMetadata] }

\* getClientIDsFromResource treating an Application without CompassMetadata
\* as a failure.
getClientIDsFromResourceStrict(got) ==
    IF got.err # "nil" \/ got.application.CompassMetadata = "nil"
    THEN [ids |-> <<>>, err |-> "Internal"]
    ELSE [ids |-> got.application.ClientIds, err |-> "nil"]

\* getClientIDsFromResource on the outcome of applicationGetter.Get: got is
\* [err, application].
getClientIDsFromResource(got) ==
    IF got.err # "nil" THEN [ids |-> <<>>, err |-> "Internal"]
    ELSE IF got.application.CompassMetadata = "nil" THEN [ids |-> <<>>, err |-> "nil"]
    ELSE [ids |-> got.application.ClientIds, err |-> "nil"]

(***************************************************************************)
(* What the handler is built with and what clients send                    *)
(***************************************************************************)
\* A forwarded subject Subject="<dn>" of the certificate header.
Subject(dn) == <<SubjectKey, Quote>> \o dn \o <<Quote>>

\* The segment key=value of a distinguished name.
Attr(key, value) == <<key, Equals, value>>

EventServiceHost == <<"event-service">>

EventMeshHost == <<"event-publisher-proxy">>

AppRegistryHost == <<"application-registry">>

PrefixV1 == <<"/app/v1/events">>

PrefixV2 == <<"/app/v2/events">>

PrefixMesh == <<"/app/events">>

PrefixRegistry == <<"/app/v1/metadata">>

\* The values of eventMeshDestinationPath: the publish endpoint, or the root.
MeshDestinationPaths == {BEBEnabledPublishEndpoint, <<"/">>}

\* The handlers of the deployments: with and without group and tenant, with
\* the publish endpoint or another path as the mesh destination path.
Handlers ==
    { NewProxyHandler(gt[1], gt[2], PrefixV1, PrefixV2, EventServiceHost, PrefixMesh,
                      EventMeshHost, dest, PrefixRegistry, AppRegistryHost) :
        gt \in {<<EmptyString, EmptyString>>, <<<<"g1">>, <<"t1">>>>},
        dest \in MeshDestinationPaths }

ApplicationNames == {<<"app1">>, <<"app2">>}

\* The Application resources the control plane may hold under a name.
Applications == {NoCompassMetadata, WithClientIds(<<<<"id1">>, <<"id2">>>>)}

\* Values of the X-Forwarded-Client-Cert header: empty; no subject at all; two
\* subjects, the first one of another client; a subject whose distinguished
\* name has a segment without "=".
CertInfoValues ==
    { EmptyString,
      <<"Hash=abc">>,
      Subject(Attr("CN", "other")) \o <<";">>
          \o Subject(Attr("CN", "app1") \o <<Comma>> \o Attr("O", "t1") \o <<Comma>> \o Attr("OU", "g1"))
          \o <<";">>
          \o Subject(Attr("CN", "id2") \o <<Comma>> \o Attr("O", "t1") \o <<Comma>> \o Attr("OU", "g1")),
      Subject(<<"CN">>) }

\* The headers of an inbound request: without the certificate header, or with
\* one of its values.
InboundHeaders ==
    {EmptyMap} \cup {[k \in {CertificateInfoHeader} |-> v] : v \in CertInfoValues}

InboundPaths ==
    { PrefixV1, PrefixV2 \o <<"/sub">>, PrefixMesh, PrefixRegistry \o <<"/services">>, <<"/healthz">> }

\* An inbound *http.Request as the server hands it to the handler, with the
\* route's {application} variable.
InboundRequests ==
    [Header : InboundHeaders,
     Host   : {<<"gateway">>},
     URL    : [Scheme : {EmptyString}, Host : {EmptyString}, Path : InboundPaths],
     application : ApplicationNames \cup {EmptyString}]

NoRequest ==
    [Header |-> EmptyMap, Host |-> EmptyString,
     URL |-> [Scheme |-> EmptyString, Host |-> EmptyString, Path |-> EmptyString],
     application |-> EmptyString]

(***************************************************************************)
(* State                                                                   *)
(***************************************************************************)
VARIABLES
    ph,            \* the *proxyHandler NewProxyHandler built
    cache,         \* ph.cache: key -> [x, remaining]
    applications,  \* the Application resources behind ph.applicationGetter
    pc,            \* per goroutine: where ProxyAppConnectorRequests stands
    r,             \* per goroutine: the *http.Request
    locals,        \* per goroutine: found, what the getter gave, applicationClientIDs,
                   \* subjects, reverseProxy
    w,             \* per goroutine: the error kind written to the ResponseWriter
    outbound,      \* per goroutine: the request the reverse proxy sent out
    calls,         \* per goroutine: cache.Get, cache.Set, getter.Get, ServeHTTP so far
    call,          \* a call of one function on its own: the function and its arguments
    ret,           \* what the call returned
    age            \* per application: the ticks since the control plane last
                   \* changed its Application, up to LongAgo

vars == <<ph, cache, applications, pc, r, locals, w, outbound, calls, call, ret, age>>

\* The goroutines of the server, each running the handler on one request at
\* a time.
Goroutines == DOMAIN pc

\* The variables no step of the handler touches: the calls of single
\* functions, and the record of the changes of the control plane.
unit == <<call, ret, age>>

\* An age beyond which the ticks since a change are no longer counted: the
\* Application has not changed, or changed more than a TTL ago.
LongAgo == TTL + 1

NoCall == [fn |-> "none"]

\* ret before the call has returned; <<value>> once it has.
NotReturned == <<>>

\* What applicationGetter.Get gave: nothing yet.
NotCalled == [err |-> "not called", application |-> NoCompassMetadata]

NoLocals ==
    [found |-> FALSE, got |-> NotCalled, applicationClientIDs |-> <<>>, subjects |-> <<>>,
     reverseProxy |-> "nil"]

NoCalls == [cacheGet |-> 0, cacheSet |-> 0, getterGet |-> 0, serveHTTP |-> 0]

\* The state after NewProxyHandler, with no request in flight.
InitHandler(handlers, directories, goroutines) ==
    /\ ph \in handlers
    /\ cache = EmptyCache
    /\ applications \in directories
    /\ pc = [g \in goroutines |-> "Idle"]
    /\ r = [g \in goroutines |-> NoRequest]
    /\ locals = [g \in goroutines |-> NoLocals]
    /\ w = [g \in goroutines |-> "none"]
    /\ outbound = [g \in goroutines |-> NoRequest]
    /\ calls = [g \in goroutines |-> NoCalls]
    /\ age = [name \in ApplicationNames |-> LongAgo]

Init ==
    /\ InitHandler(Handlers, [ApplicationNames -> Applications], {"h1"})
    /\ call = NoCall
    /\ ret = NotReturned

(***************************************************************************)
(* ProxyAppConnectorRequests, step by step                                 *)
(***************************************************************************)
certInfoData(g) == HeaderGet(r[g].Header, CertificateInfoHeader)

applicationName(g) == r[g].application

\* The server starts the handler on a goroutine for an inbound request.
Receive(g) ==
    /\ pc[g] = "Idle"
    /\ \E request \in InboundRequests : r' = [r EXCEPT ![g] = request]
    /\ pc' = [pc EXCEPT ![g] = "Start"]
    /\ UNCHANGED <<ph, cache, applications, locals, w, outbound, calls, unit>>

\* CheckRequest with the application name checked before the header.
CheckRequestNameFirst(g) ==
    /\ pc[g] = "Start"
    /\ IF applicationName(g) = EmptyString
       THEN /\ w' = [w EXCEPT ![g] = "BadRequest"]
            /\ pc' = [pc EXCEPT ![g] = "Failed"]
       ELSE IF certInfoData(g) = EmptyString
       THEN /\ w' = [w EXCEPT ![g] = "Internal"]
            /\ pc' = [pc EXCEPT ![g] = "Failed"]
       ELSE /\ w' = w
            /\ pc' = [pc EXCEPT ![g] = "ResolveIdentity"]
    /\ UNCHANGED <<ph, cache, applications, r, locals, outbound, calls, unit>>

\* The checks of the certificate header and of the application name.
CheckRequest(g) ==
    /\ pc[g] = "Start"
    /\ IF certInfoData(g) = EmptyString
       THEN /\ w' = [w EXCEPT ![g] = "Internal"]
            /\ pc' = [pc EXCEPT ![g] = "Failed"]
       ELSE IF applicationName(g) = EmptyString
       THEN /\ w' = [w EXCEPT ![g] = "BadRequest"]
            /\ pc' = [pc EXCEPT ![g] = "Failed"]
       ELSE /\ w' = w
            /\ pc' = [pc EXCEPT ![g] = "ResolveIdentity"]
    /\ UNCHANGED <<ph, cache, applications, r, locals, outbound, calls, unit>>

\* LookupCache that does not use what it finds.
LookupCacheIgnoringHit(g) ==
    /\ pc[g] = "ResolveIdentity"
    /\ pc' = [pc EXCEPT ![g] = "Fetch"]
    /\ calls' = [calls EXCEPT ![g].cacheGet = @ + 1]
    /\ UNCHANGED <<ph, cache, applications, r, locals, w, outbound, unit>>

\* getCompassMetadataClientIDs: getClientIDsFromCache.
LookupCache(g) ==
    /\ pc[g] = "ResolveIdentity"
    /\ LET got == CacheGet(cache, applicationName(g))
       IN  IF got.found
           THEN /\ locals' = [locals EXCEPT ![g].found = TRUE,
                                             ![g].applicationClientIDs = got.x]
                /\ pc' = [pc EXCEPT ![g] = "ExtractHeader"]
           ELSE /\ locals' = locals
                /\ pc' = [pc EXCEPT ![g] = "Fetch"]
    /\ calls' = [calls EXCEPT ![g].cacheGet = @ + 1]
    /\ UNCHANGED <<ph, cache, applications, r, w, outbound, unit>>

\* CallGetter that caches the empty list when the getter fails.
CallGetterCachingFailure(g) ==
    /\ pc[g] = "Fetch"
    /\ \E got \in applicationGetterGet(applications, applicationName(g)) :
         LET res == getClientIDsFromResource(got)
         IN  IF res.err # "nil"
             THEN /\ w' = [w EXCEPT ![g] = "Internal"]
                  /\ pc' = [pc EXCEPT ![g] = "Failed"]
                  /\ locals' = [locals EXCEPT ![g].got = got]
                  /\ cache' = CacheSet(cache, applicationName(g), res.ids)
             ELSE /\ w' = w
                  /\ pc' = [pc EXCEPT ![g] = "CacheSet"]
                  /\ locals' = [locals EXCEPT ![g].got = got,
                                               ![g].applicationClientIDs = res.ids]
                  /\ cache' = cache
    /\ calls' = [calls EXCEPT ![g].getterGet = @ + 1]
    /\ UNCHANGED <<ph, applications, r, outbound, unit>>

\* CallGetter that goes on to the subjects without the cache.Set.
CallGetterWithoutStore(g) ==
    /\ pc[g] = "Fetch"
    /\ \E got \in applicationGetterGet(applications, applicationName(g)) :
         LET res == getClientIDsFromResource(got)
         IN  IF res.err # "nil"
             THEN /\ w' = [w EXCEPT ![g] = "Internal"]
                  /\ pc' = [pc EXCEPT ![g] = "Failed"]
                  /\ locals' = [locals EXCEPT ![g].got = got]
             ELSE /\ w' = w
                  /\ pc' = [pc EXCEPT ![g] = "ExtractHeader"]
                  /\ locals' = [locals EXCEPT ![g].got = got,
                                               ![g].applicationClientIDs = res.ids]
    /\ calls' = [calls EXCEPT ![g].getterGet = @ + 1]
    /\ UNCHANGED <<ph, cache, applications, r, outbound, unit>>

\* getCompassMetadataClientIDs on a miss: getClientIDsFromResource, whose
\* applicationGetter.Get gives the Application or fails.
CallGetter(g) ==
    /\ pc[g] = "Fetch"
    /\ \E got \in applicationGetterGet(applications, applicationName(g)) :
         LET res == getClientIDsFromResource(got)
         IN  IF res.err # "nil"
             THEN /\ w' = [w EXCEPT ![g] = "Internal"]
                  /\ pc' = [pc EXCEPT ![g] = "Failed"]
                  /\ locals' = [locals EXCEPT ![g].got = got]
             ELSE /\ w' = w
                  /\ pc' = [pc EXCEPT ![g] = "CacheSet"]
                  /\ locals' = [locals EXCEPT ![g].got = got,
                                               ![g].applicationClientIDs = res.ids]
    /\ calls' = [calls EXCEPT ![g].getterGet = @ + 1]
    /\ UNCHANGED <<ph, cache, applications, r, outbound, unit>>

\* StoreInCache that sets the item of every application in the cache.
StoreInCacheEveryItem(g) ==
    /\ pc[g] = "CacheSet"
    /\ cache' = [key \in DOMAIN cache \cup {applicationName(g)} |->
                    [x |-> locals[g].applicationClientIDs, remaining |-> TTL]]
    /\ calls' = [calls EXCEPT ![g].cacheSet = @ + 1]
    /\ pc' = [pc EXCEPT ![g] = "ExtractHeader"]
    /\ UNCHANGED <<ph, applications, r, locals, w, outbound, unit>>

\* StoreInCache that sets an item without the client ids fetched.
StoreInCacheEmptyList(g) ==
    /\ pc[g] = "CacheSet"
    /\ cache' = CacheSet(cache, applicationName(g), <<>>)
    /\ calls' = [calls EXCEPT ![g].cacheSet = @ + 1]
    /\ pc' = [pc EXCEPT ![g] = "ExtractHeader"]
    /\ UNCHANGED <<ph, applications, r, locals, w, outbound, unit>>

\* getCompassMetadataClientIDs on a miss: the cache.Set of what was fetched.
StoreInCache(g) ==
    /\ pc[g] = "CacheSet"
    /\ cache' = CacheSet(cache, applicationName(g), locals[g].applicationClientIDs)
    /\ calls' = [calls EXCEPT ![g].cacheSet = @ + 1]
    /\ pc' = [pc EXCEPT ![g] = "ExtractHeader"]
    /\ UNCHANGED <<ph, applications, r, locals, w, outbound, unit>>

\* subjects := extractSubjects(certInfoData)
ReadSubjects(g) ==
    /\ pc[g] = "ExtractHeader"
    /\ locals' = [locals EXCEPT ![g].subjects = extractSubjects(certInfoData(g))]
    /\ pc' = [pc EXCEPT ![g] = "Authorize"]
    /\ UNCHANGED <<ph, cache, applications, r, w, outbound, calls, unit>>

\* Authorize without the return after the Forbidden response.
AuthorizeWithoutReturn(g) ==
    /\ pc[g] = "Authorize"
    /\ LET valid == hasValidSubject(locals[g].subjects, locals[g].applicationClientIDs,
                                    applicationName(g), ph.group, ph.tenant)
       IN  IF valid = "panic"
           THEN /\ w' = w
                /\ pc' = [pc EXCEPT ![g] = "Panicked"]
           ELSE IF valid = "false"
           THEN /\ w' = [w EXCEPT ![g] = "Forbidden"]
                /\ pc' = [pc EXCEPT ![g] = "Route"]
           ELSE /\ w' = w
                /\ pc' = [pc EXCEPT ![g] = "Route"]
    /\ UNCHANGED <<ph, cache, applications, r, locals, outbound, calls, unit>>

\* Authorize that looks for the proxy of the path first.
AuthorizeRoutingFirst(g) ==
    /\ pc[g] = "Authorize"
    /\ LET valid == hasValidSubject(locals[g].subjects, locals[g].applicationClientIDs,
                                    applicationName(g), ph.group, ph.tenant)
           mapped == mapRequestToProxy(ph, r[g].URL.Path)
       IN  IF mapped.err # "nil"
           THEN /\ w' = [w EXCEPT ![g] = mapped.err]
                /\ pc' = [pc EXCEPT ![g] = "Failed"]
           ELSE IF valid = "panic"
           THEN /\ w' = w
                /\ pc' = [pc EXCEPT ![g] = "Panicked"]
           ELSE IF valid = "false"
           THEN /\ w' = [w EXCEPT ![g] = "Forbidden"]
                /\ pc' = [pc EXCEPT ![g] = "Failed"]
           ELSE /\ w' = w
                /\ pc' = [pc EXCEPT ![g] = "Route"]
    /\ UNCHANGED <<ph, cache, applications, r, locals, outbound, calls, unit>>

\* The hasValidSubject check; a panic of the parser ends the goroutine's
\* handler without a response of the handler.
Authorize(g) ==
    /\ pc[g] = "Authorize"
    /\ LET valid == hasValidSubject(locals[g].subjects, locals[g].applicationClientIDs,
                                    applicationName(g), ph.group, ph.tenant)
       IN  IF valid = "panic"
           THEN /\ w' = w
                /\ pc' = [pc EXCEPT ![g] = "Panicked"]
           ELSE IF valid = "false"
           THEN /\ w' = [w EXCEPT ![g] = "Forbidden"]
                /\ pc' = [pc EXCEPT ![g] = "Failed"]
           ELSE /\ w' = w
                /\ pc' = [pc EXCEPT ![g] = "Route"]
    /\ UNCHANGED <<ph, cache, applications, r, locals, outbound, calls, unit>>

\* reverseProxy, err := ph.mapRequestToProxy(r.URL.Path)
Route(g) ==
    /\ pc[g] = "Route"
    /\ LET mapped == mapRequestToProxy(ph, r[g].URL.Path)
       IN  IF mapped.err # "nil"
           THEN /\ w' = [w EXCEPT ![g] = mapped.err]
                /\ pc' = [pc EXCEPT ![g] = "Failed"]
                /\ locals' = locals
           ELSE /\ w' = w
                /\ pc' = [pc EXCEPT ![g] = "Forward"]
                /\ locals' = [locals EXCEPT ![g].reverseProxy = mapped.proxy]
    /\ UNCHANGED <<ph, cache, applications, r, outbound, calls, unit>>

\* reverseProxy.ServeHTTP(w, r): the Director rewrites the outbound request.
Forward(g) ==
    /\ pc[g] = "Forward"
    /\ outbound' = [outbound EXCEPT ![g] = Director(ProxyOf(ph, locals[g].reverseProxy), r[g])]
    /\ calls' = [calls EXCEPT ![g].serveHTTP = @ + 1]
    /\ pc' = [pc EXCEPT ![g] = "Done"]
    /\ UNCHANGED <<ph, cache, applications, r, locals, w, unit>>

\* The handler has returned (or panicked): the goroutine ends.
Finish(g) ==
    /\ pc[g] \in {"Done", "Failed", "Panicked"}
    /\ pc' = [pc EXCEPT ![g] = "Idle"]
    /\ r' = [r EXCEPT ![g] = NoRequest]
    /\ locals' = [locals EXCEPT ![g] = NoLocals]
    /\ w' = [w EXCEPT ![g] = "none"]
    /\ outbound' = [outbound EXCEPT ![g] = NoRequest]
    /\ calls' = [calls EXCEPT ![g] = NoCalls]
    /\ UNCHANGED <<ph, cache, applications, unit>>

\* Time passes: every item of the cache is one tick nearer to its expiration.
Tick ==
    /\ cache' = CacheTick(cache)
    /\ UNCHANGED <<ph, applications, pc, r, locals, w, outbound, calls, unit>>

\* The control plane replaces the Application resource of a name.
UpdateApplication ==
    /\ \E name \in ApplicationNames, application \in Applications :
         /\ application # applications[name]
         /\ applications' = [applications EXCEPT ![name] = application]
    /\ UNCHANGED <<ph, cache, pc, r, locals, w, outbound, calls, unit>>

Next ==
    \/ \E g \in Goroutines :
         \/ Receive(g)
         \/ CheckRequest(g)
         \/ LookupCache(g)
         \/ CallGetter(g)
         \/ StoreInCache(g)
         \/ ReadSubjects(g)
         \/ Authorize(g)
         \/ Route(g)
         \/ Forward(g)
         \/ Finish(g)
    \/ Tick
    \/ UpdateApplication

Spec == Init /\ [][Next]_vars

(***************************************************************************)
(* Requests for one application handled concurrently, each on a goroutine   *)
(* of its own, while time passes and the control plane changes the          *)
(* Application                                                             *)
(***************************************************************************)
\* The application the concurrent requests are for.
ConcurrentApplication == <<"app1">>

\* The certificate headers of the concurrent requests: a subject named as the
\* application only, or the subjects of the application and of a client id.
ConcurrentCertInfoValues ==
    { Subject(Attr("CN", "app1")),
      Subject(Attr("CN", "other")) \o <<";">> \o Subject(Attr("CN", "id2")) }

ConcurrentRequests ==
    [Header : {[k \in {CertificateInfoHeader} |-> v] : v \in ConcurrentCertInfoValues},
     Host   : {<<"gateway">>},
     URL    : [Scheme : {EmptyString}, Host : {EmptyString}, Path : {PrefixV1}],
     application : {ConcurrentApplication}]

InitConcurrent ==
    /\ InitHandler({CHOOSE handler \in Handlers : handler.isBEBEnabled /\ handler.group = EmptyString},
                   {directory \in [ApplicationNames -> Applications] :
                        \A name \in ApplicationNames \ {ConcurrentApplication} :
                            directory[name] = NoCompassMetadata},
                   {"h1", "h2"})
    /\ call = NoCall
    /\ ret = NotReturned

\* The server starts the handler on goroutine g for a request for the
\* application.
Arrive(g) ==
    /\ pc[g] = "Idle"
    /\ \E request \in ConcurrentRequests : r' = [r EXCEPT ![g] = request]
    /\ pc' = [pc EXCEPT ![g] = "Start"]
    /\ UNCHANGED <<ph, cache, applications, locals, w, outbound, calls, unit>>

\* Time passes: the items of the cache and the changes of the control plane
\* are one tick older.
TickClock ==
    /\ cache' = CacheTick(cache)
    /\ age' = [name \in ApplicationNames |->
                  IF age[name] < LongAgo THEN age[name] + 1 ELSE LongAgo]
    /\ UNCHANGED <<ph, applications, pc, r, locals, w, outbound, calls, call, ret>>

\* The control plane replaces the Application resource of the application.
ChangeApplication ==
    /\ \E application \in Applications :
         /\ application # applications[ConcurrentApplication]
         /\ applications' = [applications EXCEPT ![ConcurrentApplication] = application]
    /\ age' = [age EXCEPT ![ConcurrentApplication] = 0]
    /\ UNCHANGED <<ph, cache, pc, r, locals, w, outbound, calls, call, ret>>

NextConcurrent ==
    \/ \E g \in Goroutines :
         \/ Arrive(g)
         \/ CheckRequest(g)
         \/ LookupCache(g)
         \/ CallGetter(g)
         \/ StoreInCache(g)
         \/ ReadSubjects(g)
         \/ Authorize(g)
         \/ Route(g)
         \/ Forward(g)
    \/ TickClock
    \/ ChangeApplication

SpecConcurrent == InitConcurrent /\ [][NextConcurrent]_vars

(***************************************************************************)
(* Calls of single functions, on arguments drawn from bounded sets          *)
(***************************************************************************)
\* The most segments of a distinguished name, and the most subjects of a
\* certificate header, a call is given.
MaxSegments == 3

MaxSubjects == 2

\* The most segments of one key in a distinguished name.
MaxRepeated == 2

\* The sequences of 1..n elements of S.
SeqsUpTo(S, n) == UNION {[1..k -> S] : k \in 1..n}

\* strings.Join(parts, sep) for a one-symbol separator.
RECURSIVE Join(_, _)
Join(parts, sep) ==
    IF parts = <<>> THEN EmptyString
    ELSE IF Len(parts) = 1 THEN parts[1]
    ELSE parts[1] \o <<sep>> \o Join(Tail(parts), sep)

\* Segments key=value of a distinguished name.
WellFormedSegments ==
    { Attr("CN", "app1"), Attr("CN", "id2"), Attr("O", "t1"), Attr("O", "t2"),
      Attr("OU", "g1"), Attr("OU", "g2"), Attr("L", "city") }

\* Distinguished names whose segments all hold "=".
WellFormedDNs == {Join(segs, Comma) : segs \in SeqsUpTo(WellFormedSegments, MaxSegments)}

\* The sequences of at most n elements of S, the empty one included.
SeqsFromZero(S, n) == {<<>>} \cup SeqsUpTo(S, n)

\* Distinguished names of the application with none, one or several O and OU
\* segments, some of them with an empty value.
RepeatedAttributeDNs ==
    { Join(<<Attr("CN", "app1")>> \o os \o ous, Comma) :
        os \in SeqsFromZero({Attr("O", "t1"), Attr("O", "t2"), <<"O", Equals>>}, MaxRepeated),
        ous \in SeqsFromZero({Attr("OU", "g1"), Attr("OU", "g2"), <<"OU", Equals>>}, MaxRepeated) }

\* Distinguished names with a value that holds "=", with the keys C and ST,
\* and with a key parseSubject does not read.
ParserDNs ==
    { Join(segs, Comma) :
        segs \in SeqsUpTo({ Attr("CN", "app1"), Attr("CN", "app1") \o <<Equals, "x">>,
                            Attr("O", "t1") \o <<Equals>>, Attr("C", "c1"), Attr("ST", "s1"),
                            Attr("DC", "d1") }, MaxRepeated) }

\* The distinguished names of the subjects of a header: of the application,
\* of a client id, of another client, and one with a segment without "=".
HeaderDNs ==
    { Attr("CN", "app1"),
      Attr("CN", "app1") \o <<Comma>> \o Attr("O", "t1") \o <<Comma>> \o Attr("OU", "g1"),
      Attr("CN", "id2"),
      Attr("CN", "id2") \o <<Comma>> \o Attr("O", "t1") \o <<Comma>> \o Attr("OU", "g1"),
      Attr("CN", "other"),
      <<"app1">> }

\* Certificate headers: no subject, an empty subject, or up to MaxSubjects
\* subjects one after the other.
UnitCertInfoValues ==
    { <<"Hash=abc">>, Subject(EmptyString) }
        \cup {Join([i \in 1..Len(dns) |-> Subject(dns[i])], ";") : dns \in SeqsUpTo(HeaderDNs, MaxSubjects)}

ClientIDLists == {<<>>, <<<<"id2">>>>, <<<<"id1">>, <<"id2">>>>}

Groups == {EmptyString, <<"g1">>}

Tenants == {EmptyString, <<"t1">>}

UnitPrefixes == {EmptyString, <<"/a">>, <<"/a", "/b">>, <<"/b">>, <<"/c">>}

UnitPaths == {EmptyString, <<"/a">>, <<"/a", "/b">>, <<"/b", "/a">>, <<"/c", "/x">>, <<"/d">>}

\* Handlers with prefixes that may be prefixes of one another.
UnitHandlers ==
    { NewProxyHandler(EmptyString, EmptyString, p[1], p[2], EventServiceHost, p[3],
                      EventMeshHost, dest, p[4], AppRegistryHost) :
        p \in [1..4 -> UnitPrefixes], dest \in {BEBEnabledPublishEndpoint, <<"/">>} }

\* Requests as callers may send them: with a Host, a URL scheme and a URL host
\* of their choice.
ForwardedRequests ==
    [Header : {[k \in {CertificateInfoHeader} |-> Subject(Attr("CN", "app1"))]},
     Host   : {<<"gateway">>, <<"elsewhere">>},
     URL    : [Scheme : {EmptyString, <<"https">>}, Host : {EmptyString, <<"elsewhere">>},
               Path : InboundPaths],
     application : {<<"app1">>}]

UnitCalls ==
    [fn : {"newSubjectValidator"}, applicationClientIDs : ClientIDLists,
     appName : {<<"app1">>, <<"id2">>}, group : Groups, tenant : Tenants,
     rawSubject : WellFormedDNs \cup RepeatedAttributeDNs]
    \cup
    [fn : {"hasValidSubject"}, certInfoData : UnitCertInfoValues,
     applicationClientIDs : ClientIDLists, appName : {<<"app1">>},
     group : Groups, tenant : Tenants]
    \cup
    [fn : {"mapRequestToProxy"}, handler : UnitHandlers, path : UnitPaths]
    \cup
    [fn : {"ServeHTTP"}, handler : Handlers, request : ForwardedRequests]
    \cup
    [fn : {"parseSubject"}, rawSubject : WellFormedDNs \cup RepeatedAttributeDNs \cup ParserDNs]

InitUnit ==
    /\ InitHandler({CHOOSE handler \in Handlers : handler.isBEBEnabled /\ handler.group = EmptyString},
                   {[name \in ApplicationNames |-> NoCompassMetadata]}, {"h1"})
    /\ call \in UnitCalls
    /\ ret = NotReturned

\* subjectValidator(parsedSubject) for the subject parseSubject gives.
CallNewSubjectValidator ==
    /\ call.fn = "newSubjectValidator"
    /\ ret = NotReturned
    /\ ret' = <<newSubjectValidator(call.applicationClientIDs, call.appName, call.group,
                                    call.tenant, parseSubject(call.rawSubject))>>
    /\ UNCHANGED <<ph, cache, applications, pc, r, locals, w, outbound, calls, call, age>>

\* hasValidSubject(extractSubjects(certInfoData), ...), as the handler calls it.
CallHasValidSubject ==
    /\ call.fn = "hasValidSubject"
    /\ ret = NotReturned
    /\ ret' = <<hasValidSubject(extractSubjects(call.certInfoData), call.applicationClientIDs,
                                call.appName, call.group, call.tenant)>>
    /\ UNCHANGED <<ph, cache, applications, pc, r, locals, w, outbound, calls, call, age>>

CallMapRequestToProxy ==
    /\ call.fn = "mapRequestToProxy"
    /\ ret = NotReturned
    /\ ret' = <<mapRequestToProxy(call.handler, call.path)>>
    /\ UNCHANGED <<ph, cache, applications, pc, r, locals, w, outbound, calls, call, age>>

\* parseSubject(rawSubject), as hasValidSubject calls it on every subject.
CallParseSubject ==
    /\ call.fn = "parseSubject"
    /\ ret = NotReturned
    /\ ret' = <<parseSubject(call.rawSubject)>>
    /\ UNCHANGED <<ph, cache, applications, pc, r, locals, w, outbound, calls, call, age>>

\* ph.mapRequestToProxy(r.URL.Path) and reverseProxy.ServeHTTP(w, r): the
\* error kind, or the proxy and the request its Director sends out.
CallServeHTTP ==
    /\ call.fn = "ServeHTTP"
    /\ ret = NotReturned
    /\ LET mapped == mapRequestToProxy(call.handler, call.request.URL.Path)
       IN  ret' = << [proxy |-> mapped.proxy, err |-> mapped.err,
                      outbound |-> IF mapped.err = "nil"
                                   THEN Director(ProxyOf(call.handler, mapped.proxy), call.request)
                                   ELSE NoRequest] >>
    /\ UNCHANGED <<ph, cache, applications, pc, r, locals, w, outbound, calls, call, age>>

NextUnit ==
    \/ CallParseSubject
    \/ CallServeHTTP
    \/ CallNewSubjectValidator
    \/ CallHasValidSubject
    \/ CallMapRequestToProxy

SpecUnit == InitUnit /\ [][NextUnit]_vars

(***************************************************************************)
(* Properties of the single functions (under SpecUnit)                     *)
(***************************************************************************)
Returned(fn) == call.fn = fn /\ ret # NotReturned

ElementsOf(seq) == {seq[i] : i \in 1..Len(seq)}

\* C2: the predicate applied to a subject is selected by hasClientIDs (the
\* Identity is non-empty) and hasScoping (group and tenant are both non-empty)
\* alone: (false,false) CN = application name; (false,true) CN = application
\* name, O = tenant and OU = group; (true,false) CN in Identity; (true,true) CN
\* in Identity, O = tenant and OU = group.
C2_PolicyTable ==
    Returned("newSubjectValidator") =>
        LET subject      == parseSubject(call.rawSubject)
            hasClientIDs == call.applicationClientIDs # <<>>
            hasScoping   == call.group # EmptyString /\ call.tenant # EmptyString
            cnIsAppName  == subject.CommonName = call.appName
            cnInIdentity == subject.CommonName \in ElementsOf(call.applicationClientIDs)
            inScope      == /\ subject.Organization = <<call.tenant>>
                            /\ subject.OrganizationalUnit = <<call.group>>
        IN  ret[1] = CASE ~hasClientIDs /\ ~hasScoping -> cnIsAppName
                       [] ~hasClientIDs /\ hasScoping  -> cnIsAppName /\ inScope
                       [] hasClientIDs /\ ~hasScoping  -> cnInIdentity
                       [] hasClientIDs /\ hasScoping   -> cnInIdentity /\ inScope

\* C2's case: a subject accepted for its client id although its CN is not the
\* application name, with only the group set (no O or OU check is made).
C2_Witness ==
    /\ Returned("newSubjectValidator")
    /\ ret[1] = TRUE
    /\ call.applicationClientIDs # <<>>
    /\ parseSubject(call.rawSubject).CommonName # call.appName
    /\ call.group # EmptyString
    /\ call.tenant = EmptyString
    /\ parseSubject(call.rawSubject).OrganizationalUnit # <<call.group>>

\* A subject satisfies the selected predicate: it parses, and the validator
\* newSubjectValidator selects accepts it.
SatisfiesPredicate(rawSubject) ==
    /\ ~parseSubject(rawSubject).panic
    /\ newSubjectValidator(call.applicationClientIDs, call.appName, call.group, call.tenant,
                           parseSubject(rawSubject))

\* C3: hasValidSubject returns true if and only if at least one of the
\* presented subjects satisfies the selected predicate, whatever its position
\* in the header, and returns false for an empty sequence of subjects.
C3_AnySubjectAuthorizes ==
    Returned("hasValidSubject") =>
        LET subjects == extractSubjects(call.certInfoData)
        IN  /\ ret[1] = "true" <=> \E i \in 1..Len(subjects) : SatisfiesPredicate(subjects[i])
            /\ subjects = <<>> => ret[1] = "false"

\* The rules of the router, in their order: prefix and destination.
RouterRules(handler) ==
    << [prefix |-> handler.eventServicePathPrefixV1, proxy |-> "eventsProxy",
        host |-> handler.eventServiceHost],
       [prefix |-> handler.eventServicePathPrefixV2,
        proxy |-> IF handler.isBEBEnabled THEN "eventMeshProxy" ELSE "eventsProxy",
        host |-> IF handler.isBEBEnabled THEN handler.eventMeshHost ELSE handler.eventServiceHost],
       [prefix |-> handler.eventMeshPathPrefix, proxy |-> "eventMeshProxy",
        host |-> handler.eventMeshHost],
       [prefix |-> handler.appRegistryPathPrefix, proxy |-> "appRegistryProxy",
        host |-> handler.appRegistryHost] >>

MatchingRules(handler, path) ==
    {i \in 1..4 : HasPrefix(path, RouterRules(handler)[i].prefix)}

\* C9: mapRequestToProxy returns the destination of the first of the rules
\* v1-events, v2-events, event-mesh, app-registry whose prefix the path starts
\* with (v2 goes to the mesh when isBEBEnabled, else to the event service), and
\* NotFound when the path starts with none.
C9_FirstMatchingPrefix ==
    Returned("mapRequestToProxy") =>
        LET matching == MatchingRules(call.handler, call.path)
        IN  IF matching = {}
            THEN ret[1] = [proxy |-> "nil", err |-> "NotFound"]
            ELSE LET first == CHOOSE i \in matching : \A j \in matching : i <= j
                     rule  == RouterRules(call.handler)[first]
                 IN  /\ ret[1] = [proxy |-> rule.proxy, err |-> "nil"]
                     /\ ProxyOf(call.handler, ret[1].proxy).destinationHost = rule.host

\* C9's case: the path starts with the v2 prefix and with the event-mesh
\* prefix, the mesh is off, and the request goes to the event service.
C9_Witness ==
    /\ Returned("mapRequestToProxy")
    /\ MatchingRules(call.handler, call.path) = {2, 3}
    /\ ~call.handler.isBEBEnabled
    /\ ret[1].proxy = "eventsProxy"

(***************************************************************************)
(* Properties of the handler (under Spec)                                  *)
(***************************************************************************)
\* What the stages decide on the request of goroutine g.
ValidSubject(g) ==
    hasValidSubject(extractSubjects(certInfoData(g)), locals[g].applicationClientIDs,
                    applicationName(g), ph.group, ph.tenant)

Mapped(g) == mapRequestToProxy(ph, r[g].URL.Path)

\* The identity of the request was resolved: from the cache, or from the
\* getter and then stored.
Resolved(g) ==
    /\ calls[g].cacheGet = 1
    /\ \/ locals[g].found /\ calls[g].getterGet = 0
       \/ ~locals[g].found /\ locals[g].got.err = "nil" /\ calls[g].getterGet = 1

\* The cache c holds an item for the name that has not expired.
ValidEntry(c, name) == name \in DOMAIN c /\ c[name].remaining > Expired

\* Goroutine g takes the step that leaves the place at.
Leaves(g, at) == pc[g] = at /\ pc'[g] # at

\* C1: a proxy is invoked only if all earlier stages succeeded (header and
\* application name non-empty, identity resolved without error, hasValidSubject
\* true, mapRequestToProxy gave a proxy); a request with an error response has
\* no proxy invoked, and no request has both an error response and a forward.
C1_ForwardOnlyAfterSuccess ==
    \A g \in Goroutines :
        /\ calls[g].serveHTTP > 0 =>
              /\ certInfoData(g) # EmptyString
              /\ applicationName(g) # EmptyString
              /\ Resolved(g)
              /\ ValidSubject(g) = "true"
              /\ Mapped(g).err = "nil"
              /\ locals[g].reverseProxy = Mapped(g).proxy
              /\ w[g] = "none"
        /\ w[g] # "none" => calls[g].serveHTTP = 0 /\ pc[g] = "Failed"

\* C1's case: a request that passed every stage and was forwarded.
C1_Witness ==
    \E g \in Goroutines :
        /\ pc[g] = "Done"
        /\ calls[g].serveHTTP = 1
        /\ outbound[g].URL.Host = EventServiceHost

\* C4: a request without the X-Forwarded-Client-Cert header, or with an empty
\* one, ends in an Internal failure, with the cache neither read nor written,
\* the getter not called and no proxy invoked.
C4_MissingHeaderIsInternal ==
    \A g \in Goroutines :
        (pc[g] \notin {"Idle", "Start"} /\ certInfoData(g) = EmptyString) =>
            /\ pc[g] = "Failed"
            /\ w[g] = "Internal"
            /\ calls[g] = NoCalls

\* C4's case: a failed request without the header and without an application
\* name.
C4_Witness ==
    \E g \in Goroutines :
        /\ pc[g] = "Failed"
        /\ CertificateInfoHeader \notin DOMAIN r[g].Header
        /\ applicationName(g) = EmptyString
        /\ w[g] = "Internal"

\* C5: with the header present each failing stage yields its own error kind:
\* BadRequest for an empty application name (and no getter call), Internal for
\* a getter error on a cache miss, Forbidden for a false authorization,
\* NotFound for a path of no prefix; no other kind is produced, and a request
\* goes past a stage only when the stage succeeded.
C5_FailureKinds ==
    \A g \in Goroutines :
        certInfoData(g) # EmptyString =>
            /\ pc[g] = "Failed" =>
                  \/ /\ w[g] = "BadRequest"
                     /\ applicationName(g) = EmptyString
                     /\ calls[g] = NoCalls
                  \/ /\ w[g] = "Internal"
                     /\ applicationName(g) # EmptyString
                     /\ ~locals[g].found
                     /\ locals[g].got.err = "error"
                     /\ calls[g].getterGet = 1
                  \/ /\ w[g] = "Forbidden"
                     /\ applicationName(g) # EmptyString
                     /\ Resolved(g)
                     /\ ValidSubject(g) = "false"
                  \/ /\ w[g] = "NotFound"
                     /\ applicationName(g) # EmptyString
                     /\ Resolved(g)
                     /\ ValidSubject(g) = "true"
                     /\ MatchingRules(ph, r[g].URL.Path) = {}
            /\ pc[g] \notin {"Idle", "Start", "Failed"} => applicationName(g) # EmptyString
            /\ locals[g].got.err = "error" => pc[g] = "Failed"
            /\ pc[g] \in {"Route", "Forward", "Done"} => ValidSubject(g) = "true"
            /\ pc[g] \in {"Forward", "Done"} => MatchingRules(ph, r[g].URL.Path) # {}

\* C5's case: an authorized request for a path of no prefix.
C5_Witness ==
    \E g \in Goroutines :
        /\ pc[g] = "Failed"
        /\ w[g] = "NotFound"
        /\ locals[g].applicationClientIDs # <<>>

\* C6, as stated: every request that finds an unexpired item uses it and makes
\* no getter call, and every request that finds the item of its application
\* expired calls the getter again and rewrites the item.
C6_ExpiredItemAlwaysRewritten ==
    \A g \in Goroutines :
        (pc[g] \in {"Done", "Failed", "Panicked"} /\ calls[g].cacheGet = 1) =>
            IF locals[g].found
            THEN calls[g].getterGet = 0 /\ calls[g].cacheSet = 0
            ELSE applicationName(g) \in DOMAIN cache =>
                     /\ calls[g].getterGet = 1
                     /\ calls[g].cacheSet = 1

\* C6, amended: a request that finds an unexpired item uses the cached
\* Identity and makes no getter call; an item stays, with its Identity, until
\* it expires; a request that finds no unexpired item calls the getter again
\* and, when the getter gives the Application, rewrites the item.
C6_CacheHitUntilExpiry ==
    [][\A g \in Goroutines :
         LET name == applicationName(g)
         IN  /\ Leaves(g, "ResolveIdentity") =>
                   IF ValidEntry(cache, name)
                   THEN /\ pc'[g] = "ExtractHeader"
                        /\ locals'[g].applicationClientIDs = cache[name].x
                        /\ locals'[g].found
                        /\ cache' = cache
                   ELSE pc'[g] = "Fetch"
             /\ locals[g].found => calls'[g].getterGet = 0 /\ calls'[g].cacheSet = 0
             /\ Leaves(g, "Fetch") =>
                   /\ calls'[g].getterGet = calls[g].getterGet + 1
                   /\ locals'[g].got.err = "nil" => pc'[g] = "CacheSet"
             /\ Leaves(g, "CacheSet") =>
                   cache'[name] = [x |-> locals[g].applicationClientIDs, remaining |-> TTL]
             /\ \A other \in ApplicationNames :
                   ValidEntry(cache, other) =>
                       /\ other \in DOMAIN cache'
                       /\ cache'[other].x = cache[other].x
                       /\ cache'[other].remaining \in
                              {cache[other].remaining, cache[other].remaining - 1}
    ]_vars

\* C6's case: a forwarded request that used an Identity cached some time ago,
\* which the Application of the control plane no longer has.
C6_Witness ==
    \E g \in Goroutines :
        /\ pc[g] = "Done"
        /\ locals[g].found
        /\ calls[g].getterGet = 0
        /\ locals[g].applicationClientIDs # <<>>
        /\ applications[applicationName(g)] = NoCompassMetadata
        /\ cache[applicationName(g)].remaining < TTL

\* C7: when the getter fails on a cache miss the request fails, the cache is
\* left as it was with no unexpired item for the application, and a request
\* that finds no unexpired item calls the getter.
C7_FailedFetchNotCached ==
    [][\A g \in Goroutines :
         LET name == applicationName(g)
         IN  /\ (Leaves(g, "Fetch") /\ locals'[g].got.err = "error") =>
                   /\ pc'[g] = "Failed"
                   /\ w'[g] = "Internal"
                   /\ cache' = cache
             /\ (pc'[g] = "Failed" /\ locals'[g].got.err = "error") =>
                   /\ ~ValidEntry(cache', name)
                   /\ calls'[g].cacheSet = 0
             /\ (Leaves(g, "ResolveIdentity") /\ ~ValidEntry(cache, name)) => pc'[g] = "Fetch"
             /\ Leaves(g, "Fetch") => calls'[g].getterGet = calls[g].getterGet + 1
    ]_vars

\* C7's case: the getter failed for an application whose expired item is
\* still in the cache.
C7_Witness ==
    \E g \in Goroutines :
        /\ pc[g] = "Failed"
        /\ locals[g].got.err = "error"
        /\ applicationName(g) \in DOMAIN cache
        /\ cache[applicationName(g)].x # <<>>

\* A subject of the request whose CN is the application name and, with group
\* and tenant set, whose O is the tenant and OU the group.
NamedAsApplication(g) ==
    \E i \in 1..Len(locals[g].subjects) :
        LET subject == parseSubject(locals[g].subjects[i])
        IN  /\ ~subject.panic
            /\ subject.CommonName = applicationName(g)
            /\ (ph.group # EmptyString /\ ph.tenant # EmptyString) =>
                   /\ subject.Organization = <<ph.tenant>>
                   /\ subject.OrganizationalUnit = <<ph.group>>

\* C8: an Application without CompassMetadata resolves to the empty Identity
\* without a failure, the empty Identity is cached, a later request finds it
\* without a getter call, and the subjects are then checked against the
\* application name.
C8_NoMetadataIsEmptyIdentity ==
    /\ [][\A g \in Goroutines :
            LET name == applicationName(g)
            IN  /\ ( /\ Leaves(g, "Fetch")
                     /\ locals'[g].got = [err |-> "nil", application |-> NoCompassMetadata] ) =>
                       /\ pc'[g] = "CacheSet"
                       /\ locals'[g].applicationClientIDs = <<>>
                       /\ w'[g] = "none"
                /\ Leaves(g, "CacheSet") =>
                       /\ ValidEntry(cache', name)
                       /\ cache'[name].x = locals[g].applicationClientIDs
                /\ ( /\ Leaves(g, "ResolveIdentity")
                     /\ ValidEntry(cache, name)
                     /\ cache[name].x = <<>> ) =>
                       /\ pc'[g] = "ExtractHeader"
                       /\ locals'[g].applicationClientIDs = <<>>
                       /\ calls'[g].getterGet = 0
         ]_vars
    /\ [](\A g \in Goroutines :
            locals[g].applicationClientIDs = <<>> =>
                /\ pc[g] \in {"Route", "Forward", "Done"} => NamedAsApplication(g)
                /\ (pc[g] = "Failed" /\ w[g] = "Forbidden") => ~NamedAsApplication(g))

\* C8's case: a forwarded request that found the cached empty Identity and was
\* authorized by its subject named as the application.
C8_Witness ==
    \E g \in Goroutines :
        /\ pc[g] = "Done"
        /\ locals[g].found
        /\ locals[g].applicationClientIDs = <<>>
        /\ calls[g].getterGet = 0
        /\ ph.group # EmptyString

\* C10: for every destination the outbound request of a forwarded request
\* does not carry the X-Forwarded-Client-Cert header.
C10_NoCertHeaderOutbound ==
    \A g \in Goroutines :
        pc[g] = "Done" => CertificateInfoHeader \notin DOMAIN outbound[g].Header

\* The eventMeshDestinationPath the handler was built with.
ConfiguredMeshDestinationPath ==
    CHOOSE dest \in MeshDestinationPaths : (dest = BEBEnabledPublishEndpoint) <=> ph.isBEBEnabled

\* The rule of the router the path of goroutine g's request falls under (0 if
\* none): 1 v1-events, 2 v2-events, 3 event-mesh, 4 app-registry.
RuleOf(g) ==
    LET matching == MatchingRules(ph, r[g].URL.Path)
    IN  IF matching = {} THEN 0 ELSE CHOOSE i \in matching : \A j \in matching : i <= j

\* The request of goroutine g goes to the mesh: through the event-mesh prefix,
\* or through the v2-events prefix when the mesh is enabled.
ToMesh(g) == RuleOf(g) = 3 \/ (RuleOf(g) = 2 /\ ph.isBEBEnabled)

\* C11: a request forwarded to the mesh (event-mesh prefix, or v2-events prefix
\* with the mesh enabled) leaves with the configured mesh destination path as
\* its path, whatever the caller's path was; a request forwarded to the event
\* service or to the app registry leaves with the caller's path.
C11_MeshPathRewritten ==
    \A g \in Goroutines :
        pc[g] = "Done" =>
            IF ToMesh(g)
            THEN /\ outbound[g].URL.Host = ph.eventMeshHost
                 /\ outbound[g].URL.Path = ConfiguredMeshDestinationPath
            ELSE /\ outbound[g].URL.Host \in {ph.eventServiceHost, ph.appRegistryHost}
                 /\ outbound[g].URL.Path = r[g].URL.Path

\* C11's case: a request under the v2-events prefix, with a sub-path, that
\* left for the mesh with the publish endpoint as its path.
C11_Witness ==
    \E g \in Goroutines :
        /\ pc[g] = "Done"
        /\ r[g].URL.Path = PrefixV2 \o <<"/sub">>
        /\ outbound[g].URL.Host = EventMeshHost
        /\ outbound[g].URL.Path = BEBEnabledPublishEndpoint

\* A subject of goroutine g's request has a segment without "=".
HasMalformedSubject(g) ==
    \E i \in 1..Len(extractSubjects(certInfoData(g))) :
        \E segment \in ElementsOf(Split(extractSubjects(certInfoData(g))[i], Comma)) :
            Len(Split(segment, Equals)) < 2

\* C12: a request whose forwarded subject has a segment without "=" never
\* crashes the handler: once authorization has run the request is on its way
\* to, or at, one of the normal outcomes (forwarded, or Failed with a kind).
C12_MalformedSegmentNoCrash ==
    \A g \in Goroutines :
        HasMalformedSubject(g) =>
            /\ pc[g] # "Panicked"
            /\ pc[g] = "Failed" => w[g] \in {"BadRequest", "Internal", "Forbidden", "NotFound"}

\* The stages of a request, in the order C13 gives them.
StageOrder ==
    <<"Start", "ExtractHeader", "ResolveIdentity", "Authorize", "Route", "Forward", "Done">>

\* The stage a place of the handler belongs to: the getter call and the
\* cache.Set are steps of ResolveIdentity.
StageOf(at) == IF at \in {"Fetch", "CacheSet"} THEN "ResolveIdentity" ELSE at

\* The position of a stage in StageOrder, 0 for a place that is no stage.
StageIndex(stage) ==
    IF \E i \in 1..Len(StageOrder) : StageOrder[i] = stage
    THEN CHOOSE i \in 1..Len(StageOrder) : StageOrder[i] = stage
    ELSE 0

\* C13: every request runs the stages in the order Start, ExtractHeader (the
\* subjects are extracted), ResolveIdentity, Authorize, Route, Forward, Done:
\* a request leaves a stage only for the next stage of the order or for
\* Failed, so no stage is skipped, run early or run twice.
C13_StageOrder ==
    [][\A g \in Goroutines :
         (StageIndex(StageOf(pc[g])) \in 1..(Len(StageOrder) - 1) /\ StageOf(pc'[g]) # StageOf(pc[g])) =>
             \/ StageIndex(StageOf(pc'[g])) = StageIndex(StageOf(pc[g])) + 1
             \/ pc'[g] = "Failed"
    ]_vars

\* The handler of goroutine g has ended: it returned, or a panic aborted it.
Ended(g) == pc[g] \in {"Done", "Failed", "Panicked"}

\* C14: within one request the getter is called at most once and a proxy is
\* invoked at most once, a failure of the getter is followed by no second
\* attempt, and a request that has ended has ended in Done or in Failed.
C14_SingleAttempt ==
    \A g \in Goroutines :
        /\ calls[g].getterGet <= 1
        /\ calls[g].serveHTTP <= 1
        /\ locals[g].got.err = "error" => pc[g] = "Failed" /\ calls[g].serveHTTP = 0
        /\ Ended(g) => pc[g] \in {"Done", "Failed"}
        /\ pc[g] = "Done" <=> calls[g].serveHTTP = 1
        /\ pc[g] = "Failed" <=> w[g] # "none"

(***************************************************************************)
(* Properties of concurrent requests (under SpecConcurrent)                *)
(***************************************************************************)
\* The Identity of an Application: its client ids, none without metadata.
IdentityOf(application) ==
    IF application.CompassMetadata = "nil" THEN <<>> ELSE application.ClientIds

\* The goroutines whose request has called the getter.
Callers == {g \in Goroutines : locals[g].got # NotCalled}

\* The getter returned the same Application to every call made so far, and
\* failed for none.
SameIdentityToEveryCall ==
    /\ \A g \in Callers : locals[g].got.err = "nil"
    /\ \A g, h \in Callers : locals[g].got.application = locals[h].got.application

RECURSIVE SumOver(_, _)
SumOver(S, f) ==
    IF S = {} THEN 0
    ELSE LET x == CHOOSE x \in S : TRUE IN f[x] + SumOver(S \ {x}, f)

\* The calls of the getter by all the requests together.
GetterCalls == SumOver(Goroutines, [g \in Goroutines |-> calls[g].getterGet])

\* C15: for the requests for one application that start on a cache without an
\* item for it and run concurrently, with the getter returning the same
\* Identity to every call: the getter is called at most once per request and,
\* once a request has resolved the Identity, at least once; every request
\* that has resolved the Identity holds exactly that Identity; and when all
\* requests have ended the cache holds that Identity for the application and
\* nothing else, as after a sequential run.
C15_ConcurrentMissesAgree ==
    /\ GetterCalls <= Cardinality(Goroutines)
    /\ \A g \in Goroutines : calls[g].getterGet <= 1
    /\ (\E g \in Goroutines : Resolved(g)) => GetterCalls >= 1
    /\ SameIdentityToEveryCall =>
          \A g \in Goroutines, caller \in Callers :
              LET Identity == IdentityOf(locals[caller].got.application)
              IN  /\ (Resolved(g) /\ pc[g] # "ResolveIdentity") =>
                        locals[g].applicationClientIDs = Identity
                  /\ pc[g] \in {"Route", "Forward", "Done"} =>
                        hasValidSubject(locals[g].subjects, Identity, applicationName(g),
                                        ph.group, ph.tenant) = "true"
                  /\ ValidEntry(cache, ConcurrentApplication) =>
                        cache[ConcurrentApplication].x = Identity
                  /\ (\A h \in Goroutines : Ended(h)) =>
                        /\ DOMAIN cache = {ConcurrentApplication}
                        /\ cache[ConcurrentApplication].x = Identity

\* C15's case: both requests missed the cache, both called the getter, which
\* gave both the same client ids, both stored them, and both have ended.
C15_Witness ==
    /\ \A g \in Goroutines : pc[g] = "Done" /\ calls[g].cacheSet = 1 /\ ~locals[g].found
    /\ GetterCalls = 2
    /\ SameIdentityToEveryCall
    /\ cache[ConcurrentApplication].x # <<>>

\* C16: staleness is bounded by the TTL under every interleaving: more than a
\* TTL after the control plane last changed an Application the cache serves no
\* Identity fetched before the change (an unexpired item holds the Identity of
\* the changed Application), so that every request that starts then is
\* authorized against the new Identity.
C16_StalenessBoundedByTTL ==
    \A name \in ApplicationNames :
        (age[name] > TTL /\ ValidEntry(cache, name)) =>
            cache[name].x = IdentityOf(applications[name])

(***************************************************************************)
(* Properties of the subject parser (under SpecUnit)                       *)
(***************************************************************************)
\* The key of a segment: the text before its first "=".
KeyOf(segment) == SubSeq(segment, 1, IndexFrom(segment, Equals, 1) - 1)

\* The value of a segment: the whole text after its first "=".
ValueOf(segment) == SubSeq(segment, IndexFrom(segment, Equals, 1) + 1, Len(segment))

\* The positions of the segments of a distinguished name that have the key.
SegmentsWithKey(dn, key) ==
    {i \in 1..Len(Split(dn, Comma)) : KeyOf(Split(dn, Comma)[i]) = key}

\* The distinguished name has exactly one segment of the key, with the value.
ExactlyOne(dn, key, value) ==
    /\ Cardinality(SegmentsWithKey(dn, key)) = 1
    /\ \A i \in SegmentsWithKey(dn, key) : ValueOf(Split(dn, Comma)[i]) = value

\* C17: under the two scoped policies (group and tenant both non-empty) only
\* a subject with exactly one O segment, equal to the tenant, and exactly one
\* OU segment, equal to the group, satisfies the predicate; a subject with no
\* O (or OU), an empty one or more than one never does.
C17_ScopedNeedsSingleOAndOU ==
    ( /\ Returned("newSubjectValidator")
      /\ call.group # EmptyString
      /\ call.tenant # EmptyString
      /\ ret[1] = TRUE ) =>
        /\ ExactlyOne(call.rawSubject, <<"O">>, call.tenant)
        /\ ExactlyOne(call.rawSubject, <<"OU">>, call.group)

\* The keys parseSubject reads.
SubjectKeys == {<<"CN">>, <<"O">>, <<"OU">>, <<"C">>, <<"L">>, <<"ST">>}

\* The attribute of a parsed subject that parseSubject fills from the key.
AttributeOf(subject, key) ==
    CASE key = <<"CN">> -> subject.CommonName
      [] key = <<"O">>  -> subject.Organization[1]
      [] key = <<"OU">> -> subject.OrganizationalUnit[1]
      [] key = <<"C">>  -> subject.Country[1]
      [] key = <<"L">>  -> subject.Locality[1]
      [] key = <<"ST">> -> subject.Province[1]

\* C18: for a DN whose segments all hold "=", parseSubject gives each of CN, O,
\* OU, C, L, ST the whole text after the first "=" of a segment with that key
\* (a value that holds "=" is kept in full), the empty string when no segment
\* has the key, and nothing from segments of other keys.
C18_ValueAfterFirstEquals ==
    ( /\ Returned("parseSubject")
      /\ \A segment \in ElementsOf(Split(call.rawSubject, Comma)) :
             IndexFrom(segment, Equals, 1) # 0 ) =>
        /\ ~ret[1].panic
        /\ \A key \in SubjectKeys :
              IF SegmentsWithKey(call.rawSubject, key) = {}
              THEN AttributeOf(ret[1], key) = EmptyString
              ELSE \E i \in SegmentsWithKey(call.rawSubject, key) :
                       AttributeOf(ret[1], key) = ValueOf(Split(call.rawSubject, Comma)[i])

(***************************************************************************)
(* Properties of the forwarded request                                     *)
(***************************************************************************)
\* C19: for every destination the outbound request of a forwarded request has
\* its Host cleared, the scheme http in its URL and, as the host of its URL,
\* the host of the destination the router chose (event service, event mesh or
\* app registry), whatever Host, scheme and URL host the caller sent.
C19_OutboundHostAndScheme ==
    (Returned("ServeHTTP") /\ ret[1].err = "nil") =>
        LET matching == MatchingRules(call.handler, call.request.URL.Path)
            first    == CHOOSE i \in matching : \A j \in matching : i <= j
        IN  /\ ret[1].outbound.Host = EmptyString
            /\ ret[1].outbound.URL.Scheme = <<"http">>
            /\ ret[1].outbound.URL.Host = RouterRules(call.handler)[first].host
            /\ ret[1].outbound.URL.Host \in {EventServiceHost, EventMeshHost, AppRegistryHost}

\* C19's case: a request for the app registry sent with a Host, the scheme
\* https and a URL host of the caller's, forwarded to the app registry's host.
C19_Witness ==
    /\ Returned("ServeHTTP")
    /\ call.request.Host = <<"elsewhere">>
    /\ call.request.URL.Scheme = <<"https">>
    /\ call.request.URL.Host = <<"elsewhere">>
    /\ ret[1].proxy = "appRegistryProxy"
    /\ ret[1].outbound.URL.Host = AppRegistryHost
    /\ ret[1].outbound.URL.Path = call.request.URL.Path

(***************************************************************************)
(* What a request changes                                                  *)
(***************************************************************************)
\* The cache c without the item of the name.
Without(c, name) == [key \in DOMAIN c \ {name} |-> c[key]]

\* C20: a step of the handler on a request for an application changes no
\* shared state but the cache item of that application: the handler's
\* configuration and proxies never change, the items of other applications are
\* not written and the lookup's result depends on the application's item
\* only, and the item is written only after a miss followed by a successful
\* getter call.
C20_OnlyOwnCacheItemChanges ==
    [][/\ ph' = ph
       /\ \A g \in Goroutines :
            LET name == applicationName(g)
            IN  (pc[g] # "Idle" /\ pc'[g] # pc[g]) =>
                    /\ applications' = applications
                    /\ Without(cache', name) = Without(cache, name)
                    /\ Leaves(g, "ResolveIdentity") =>
                          /\ locals'[g].found = ValidEntry(cache, name)
                          /\ locals'[g].found => locals'[g].applicationClientIDs = cache[name].x
                    /\ cache' # cache =>
                          /\ pc[g] = "CacheSet"
                          /\ ~locals[g].found
                          /\ calls[g].cacheGet = 1
                          /\ calls[g].getterGet = 1
                          /\ locals[g].got.err = "nil"
                          /\ cache'[name] = [x |-> IdentityOf(locals[g].got.application),
                                             remaining |-> TTL]
    ]_vars

\* C20's case: a request has written the item of its application next to the
\* unexpired item of another application, which holds another Identity.
C20_Witness ==
    \E g \in Goroutines, other \in ApplicationNames :
        /\ pc[g] = "ExtractHeader"
        /\ calls[g].cacheSet = 1
        /\ other # applicationName(g)
        /\ ValidEntry(cache, other)
        /\ ValidEntry(cache, applicationName(g))
        /\ cache[other].x # cache[applicationName(g)].x

(***************************************************************************)
(* The order of the checks                                                 *)
(***************************************************************************)
\* The response of the earliest check, in the order header, application name,
\* identity resolution, authorization, routing, that the request of goroutine
\* g fails; "none" when it fails no check.
EarliestFailure(g) ==
    IF certInfoData(g) = EmptyString THEN "Internal"
    ELSE IF applicationName(g) = EmptyString THEN "BadRequest"
    ELSE IF locals[g].got.err = "error" THEN "Internal"
    ELSE IF ValidSubject(g) = "false" THEN "Forbidden"
    ELSE IF Mapped(g).err # "nil" THEN "NotFound"
    ELSE "none"

\* C21: a request that fails several checks gets the response of the earliest
\* one in the order header, application name, identity resolution,
\* authorization, routing: without header and without application name
\* Internal; with a failing getter Internal whatever the subjects; without a
\* valid subject on a path of no prefix Forbidden.
C21_EarliestCheckDecides ==
    \A g \in Goroutines :
        /\ pc[g] \in {"Done", "Failed"} => w[g] = EarliestFailure(g)
        /\ pc[g] = "Failed" => EarliestFailure(g) # "none"
        /\ (pc[g] = "Failed" /\ certInfoData(g) = EmptyString) => w[g] = "Internal"
        /\ (pc[g] = "Failed" /\ locals[g].got.err = "error") => w[g] = "Internal"
        /\ ( /\ pc[g] = "Failed"
             /\ Resolved(g)
             /\ ValidSubject(g) = "false"
             /\ MatchingRules(ph, r[g].URL.Path) = {} ) => w[g] = "Forbidden"

\* C21's case: a request without a valid subject, for a path of no prefix,
\* answered Forbidden.
C21_Witness ==
    \E g \in Goroutines :
        /\ pc[g] = "Failed"
        /\ w[g] = "Forbidden"
        /\ extractSubjects(certInfoData(g)) # <<>>
        /\ MatchingRules(ph, r[g].URL.Path) = {}

\* The request of goroutine g is past the resolution of the Identity: its
\* subjects are being examined or have been, or it was answered Forbidden or
\* NotFound.
PastResolution(g) ==
    \/ pc[g] \in {"ExtractHeader", "Authorize", "Route", "Forward", "Done", "Panicked"}
    \/ pc[g] = "Failed" /\ w[g] \in {"Forbidden", "NotFound"}

\* C22: the resolution of the Identity does not wait for the subjects or the
\* path: every request with a header and an application name reads the cache
\* and, on a miss, calls the getter and, when it succeeds, sets the item
\* before a subject is examined; a request that ends in Forbidden or NotFound
\* has left the item of its application in the cache.
C22_ResolutionBeforeSubjects ==
    \A g \in Goroutines :
        LET name == applicationName(g)
        IN  /\ ( /\ certInfoData(g) # EmptyString
                 /\ name # EmptyString
                 /\ pc[g] \notin {"Idle", "Start", "ResolveIdentity"} ) =>
                    /\ calls[g].cacheGet = 1
                    /\ (~locals[g].found /\ pc[g] # "Fetch") => calls[g].getterGet = 1
                    /\ (~locals[g].found /\ locals[g].got.err = "nil" /\ pc[g] # "CacheSet") =>
                           calls[g].cacheSet = 1
            /\ pc[g] \in {"Start", "ResolveIdentity", "Fetch", "CacheSet"} =>
                    locals[g].subjects = <<>>
            /\ PastResolution(g) =>
                    /\ locals[g].found \/ calls[g].cacheSet = 1
                    /\ name \in DOMAIN cache
                    /\ cache[name].x = locals[g].applicationClientIDs

\* C22's case: a request without any subject, for a path of no prefix, that
\* missed the cache, was answered Forbidden and left the client ids of its
\* application in the cache.
C22_Witness ==
    \E g \in Goroutines :
        /\ pc[g] = "Failed"
        /\ w[g] = "Forbidden"
        /\ extractSubjects(certInfoData(g)) = <<>>
        /\ MatchingRules(ph, r[g].URL.Path) = {}
        /\ calls[g].cacheSet = 1
        /\ ValidEntry(cache, applicationName(g))
        /\ cache[applicationName(g)].x # <<>>

(***************************************************************************)
(* The mesh switch                                                         *)
(***************************************************************************)
\* The eventMeshDestinationPath a handler was built with: the path its mesh
\* proxy rewrites to.
MeshDestinationPathOf(handler) == handler.eventMeshProxy.reqOpts[1].path

\* C23: isBEBEnabled is true if and only if the handler was built with
\* "/publish" as the mesh destination path, and it never changes; so a request
\* routed by the v2-events rule goes to the event service, with its path, under
\* any other destination path, and to the mesh host with the path "/publish"
\* under "/publish".
C23_MeshSwitchFollowsPath ==
    /\ [][ph' = ph]_vars
    /\ [](/\ ph.isBEBEnabled <=> MeshDestinationPathOf(ph) = <<"/publish">>
          /\ \A g \in Goroutines :
                (pc[g] = "Done" /\ RuleOf(g) = 2) =>
                    IF MeshDestinationPathOf(ph) = <<"/publish">>
                    THEN /\ outbound[g].URL.Host = ph.eventMeshHost
                         /\ outbound[g].URL.Path = <<"/publish">>
                    ELSE /\ outbound[g].URL.Host = ph.eventServiceHost
                         /\ outbound[g].URL.Path = r[g].URL.Path)

\* C23's case: with another destination path than "/publish", a request under
\* the v2-events prefix was forwarded to the event service with its own path.
C23_Witness ==
    \E g \in Goroutines :
        /\ pc[g] = "Done"
        /\ RuleOf(g) = 2
        /\ MeshDestinationPathOf(ph) # <<"/publish">>
        /\ ~ph.isBEBEnabled
        /\ outbound[g].URL.Host = EventServiceHost
        /\ outbound[g].URL.Path = PrefixV2 \o <<"/sub">>

=============================================================================
